---- MODULE Spec2Model ----
(***************************************************************************)
(* Model of import_rhcos.py: discovery of OpenShift release versions from  *)
(* the upgrade graph, and the per-release pipeline                          *)
(*   register_image -> import_snapshot -> upload_rhcos -> download_rhcos    *)
(* against an S3 bucket, an EC2 account and the local temp directory.       *)
(*                                                                          *)
(* Strings the code parses (release versions, channel prefixes) are         *)
(* sequences of one-character strings.  Optional values (Python None) are   *)
(* sequences of length 0 (None) or 1 (the value).                           *)
(***************************************************************************)
EXTENDS Integers, Sequences, FiniteSets, TLC

VARIABLES
    versions_to_upload,  \* argv: the channel prefixes
    graph,               \* upgrade-graph service: prefix -> sequence of node versions
    mirror,              \* release mirror: release version -> release.txt text
    run,                 \* number of the current process invocation
    pc,                  \* position of the process
    pi,                  \* index of the prefix the discovery loop is at
    openshift_versions,  \* the list built by discovery
    idx,                 \* index of the version the batch loop is at (0 before the loop)
    job,                 \* the OpenShiftRelease object and the locals of its methods
    err,                 \* the exception in flight or last caught ("none" if none)
    calls,               \* external calls issued by the current register_image(), in order
    started,             \* versions for which register_image() was started in this run
    succeeded,           \* release version -> <<image id>> of its first finished success
    bucket,              \* S3 bucket: key -> content ("absent", "full", "partial")
    disk,                \* temp directory: decompressed path -> content
    gzfiles,             \* temp directory: the .gz paths that exist
    snapshots,           \* EC2 snapshots, in the order the provider lists them
    tasks,               \* EC2 snapshot-import tasks
    images               \* EC2 images, in the order the provider lists them

vars == <<versions_to_upload, graph, mirror, run, pc, pi, openshift_versions, idx,
          job, err, calls, started, succeeded,
          bucket, disk, gzfiles, snapshots, tasks, images>>

local_vars == <<bucket, disk, gzfiles, snapshots, tasks, images>>

----------------------------------------------------------------------------
(* Bounds of the model *)

MaxNodes == 2      \* nodes per upgrade-graph response (discovery inputs)
MaxRuns == 2       \* process invocations

(* Program constants *)

PollSeconds == 10       \* time_elapsed += 10; time.sleep(10)
TimeoutMinutes == 5     \* if time_elapsed > 60 * 5
SecondsPerMinute == 60
MinSizeMB == 100        \* if rhcos_size_mb < 100
BytesPerKB == 1024      \* rhcos_size / (1024 * 1024)

----------------------------------------------------------------------------
(* Python values *)

None == <<>>
Some(x) == <<x>>

Range(s) == {s[i] : i \in 1..Len(s)}

\* str.format() of an optional string: None prints as 'None'
Format(opt) == IF opt = None THEN "None" ELSE opt[1]

----------------------------------------------------------------------------
(* Strings as character sequences *)

Digits == {"0", "1", "2", "3", "4", "5", "6", "7", "8", "9"}

DigitVal(c) ==
    CASE c = "0" -> 0 [] c = "1" -> 1 [] c = "2" -> 2 [] c = "3" -> 3 [] c = "4" -> 4
      [] c = "5" -> 5 [] c = "6" -> 6 [] c = "7" -> 7 [] c = "8" -> 8 [] c = "9" -> 9

\* s.split('.'): the pieces between the dots, empty pieces included
RECURSIVE SplitFrom(_, _, _)
SplitFrom(s, i, cur) ==
    IF i > Len(s) THEN <<cur>>
    ELSE IF s[i] = "." THEN <<cur>> \o SplitFrom(s, i + 1, <<>>)
    ELSE SplitFrom(s, i + 1, Append(cur, s[i]))

Split(s) == SplitFrom(s, 1, <<>>)

\* '.'.join(parts)
RECURSIVE Join(_)
Join(parts) ==
    IF Len(parts) = 0 THEN <<>>
    ELSE IF Len(parts) = 1 THEN parts[1]
    ELSE parts[1] \o <<".">> \o Join(Tail(parts))

\* parts[0:2]
FirstTwo(parts) == SubSeq(parts, 1, IF Len(parts) < 2 THEN Len(parts) ELSE 2)

\* int(s) of a digit string
RECURSIVE ToInt(_)
ToInt(s) ==
    IF Len(s) = 0 THEN 0 ELSE 10 * ToInt(SubSeq(s, 1, Len(s) - 1)) + DigitVal(s[Len(s)])

----------------------------------------------------------------------------
(* Release Set Discoverer: the filter of line 302 and the sort of line 306 *)

AllDigits(piece) == Len(piece) > 0 /\ \A i \in 1..Len(piece) : piece[i] \in Digits

\* the string without one trailing line break
Chomp(s) == IF Len(s) > 0 /\ s[Len(s)] = "\n" THEN SubSeq(s, 1, Len(s) - 1) ELSE s

\* re.search(r'^\d+\.\d+\.\d+$', version); $ also matches before a trailing
\* line break
IsRelease(version) ==
    LET parts == Split(Chomp(version))
    IN  Len(parts) = 3 /\ \A i \in 1..3 : AllDigits(parts[i])

\* '.'.join(version.split('.')[0:2])
MajorMinor(version) == Join(FirstTwo(Split(version)))

\* the condition of line 302
Selected(version, prefixes) ==
    MajorMinor(version) \in Range(prefixes) /\ IsRelease(version)

\* the loop over data['nodes'], lines 300-304
RECURSIVE Collect(_, _, _)
Collect(nodes, prefixes, acc) ==
    IF Len(nodes) = 0 THEN acc
    ELSE LET version == Head(nodes)
         IN  Collect(Tail(nodes), prefixes,
                     IF Selected(version, prefixes) /\ version \notin Range(acc)
                     THEN Append(acc, version) ELSE acc)

\* a sort key that compares the pieces as text padded to two characters
SortKeyLexical(s) ==
    LET parts == Split(s)
    IN  [i \in 1..Len(parts) |->
            IF Len(parts[i]) = 1 THEN 10 * DigitVal(parts[i][1]) ELSE ToInt(parts[i])]

\* key=lambda s: list(map(int, s.split('.'))); int() ignores a trailing line break
SortKey(s) ==
    LET parts == Split(s)
    IN  [i \in 1..Len(parts) |-> ToInt(Chomp(parts[i]))]

\* Python's list comparison a < b
RECURSIVE ListLess(_, _)
ListLess(a, b) ==
    IF Len(b) = 0 THEN FALSE
    ELSE IF Len(a) = 0 THEN TRUE
    ELSE IF a[1] # b[1] THEN a[1] < b[1]
    ELSE ListLess(Tail(a), Tail(b))

\* insert x behind every element whose key is not smaller than x's (stable)
RECURSIVE InsertDesc(_, _)
InsertDesc(sorted, x) ==
    IF Len(sorted) = 0 THEN <<x>>
    ELSE IF ListLess(SortKey(Head(sorted)), SortKey(x)) THEN <<x>> \o sorted
    ELSE <<Head(sorted)>> \o InsertDesc(Tail(sorted), x)

\* list.sort(reverse=True, key=...): stable, descending by key
RECURSIVE SortDesc(_)
SortDesc(l) ==
    IF Len(l) = 0 THEN <<>>
    ELSE InsertDesc(SortDesc(SubSeq(l, 1, Len(l) - 1)), l[Len(l)])

----------------------------------------------------------------------------
(* Version Resolver and Artifact Locator: the properties of OpenShiftRelease *)

\* artifact versions that appear in release texts
AV1 == "47.83.202103251640-0"
AV2 == "48.84.202106091622-0"
ArtifactVersions == {AV1, AV2}

\* A release text is a sequence of lines [name, value]; a value matches
\* [\d\.\-]+ exactly when it is one of the artifact versions.
VersionLike(value) == value \in ArtifactVersions

\* re.search(r'machine-os ([\d\.\-]+)', text): the first match's group, or None
RECURSIVE Search(_)
Search(text) ==
    IF Len(text) = 0 THEN None
    ELSE IF Head(text).name = "machine-os" /\ VersionLike(Head(text).value)
         THEN Some(Head(text).value)
         ELSE Search(Tail(text))

\* `not self._data`: None and the empty text are both falsy
DataFalsy(data) == data = None \/ data[1] = <<>>

\* 'rhcos-{}-aws.x86_64.vmdk'.format(self.rhcos_version)
Filename(rhcos_version) == <<"rhcos-", Format(rhcos_version), "-aws.x86_64.vmdk">>

\* os.path.join(tempfile.gettempdir(), self.rhcos_filename)
LocalPath(filename) == <<"/tmp/">> \o filename

\* '{}.gz'.format(self.rhcos_path)
GzPath(path) == path \o <<".gz">>

\* '/'.join([base_url, 'rhcos-<major.minor>', rhcos_version, 'x86_64', '<filename>.gz'])
\* (defined for a rhcos_version that is a string; None raises TypeError)
Url(version, rhcos_version, filename) ==
    <<"https://releases-art-rhcos.svc.ci.openshift.org/art/storage/releases",
      <<"rhcos-">> \o MajorMinor(version), rhcos_version[1], "x86_64",
      filename \o <<".gz">> >>

\* 'rhcos-{}'.format(self.rhcos_version): snapshot description and image name
ImageName(rhcos_version) == <<"rhcos-", Format(rhcos_version)>>

Keys == {Filename(Some(a)) : a \in ArtifactVersions} \cup {Filename(None)}
Paths == {LocalPath(k) : k \in Keys}

----------------------------------------------------------------------------
(* The conditions the code branches on *)

\* the object-store check requiring more than one match
ObjectSkipMany(key_count) == key_count > 1

\* line 139: .get('KeyCount', 0) > 0
ObjectSkip(key_count) == key_count > 0

\* the size check in decimal megabytes instead of MiB
TooSmallDecimal(rhcos_size) == rhcos_size < MinSizeMB * (1000 * 1000)

\* lines 126-127: rhcos_size / (1024 * 1024) < 100.  The division is a float
\* division by a power of two, so it is exact and the test is rhcos_size < 100 MiB.
TooSmall(rhcos_size) == rhcos_size < MinSizeMB * (BytesPerKB * BytesPerKB)

\* the snapshot check requiring more than one match
SnapshotSkipMany(existing_snapshots) == Len(existing_snapshots) > 1

\* line 166: len(existing_snapshots['Snapshots']) > 0
SnapshotSkip(existing_snapshots) == Len(existing_snapshots) > 0

\* the timeout test with >= in place of >
TimedOutEarly(time_elapsed) == time_elapsed >= SecondsPerMinute * TimeoutMinutes

\* line 214: time_elapsed > 60 * 5
TimedOut(time_elapsed) == time_elapsed > SecondsPerMinute * TimeoutMinutes

\* the image check requiring more than one match
ImageSkipMany(existing_images) == Len(existing_images) > 1

\* line 231: len(existing_images['Images']) > 0
ImageSkip(existing_images) == Len(existing_images) > 0

\* an except clause that catches RuntimeError only
CaughtRuntimeOnly(e) == e \in {"integrity", "timeout"}

\* line 314: except Exception catches every error the pipeline raises
Caught(e) == TRUE

----------------------------------------------------------------------------
(* The remote services and the temp directory, as the code queries them *)

\* s3.list_objects_v2(Bucket, Prefix=filename)['KeyCount']: the keys that start
\* with filename (no key of the bucket is a proper prefix of another)
KeyCount(filename) ==
    Cardinality({k \in Keys : bucket[k] # "absent" /\ k = filename})

\* os.path.exists(path)
Exists(path) == path \in Paths /\ disk[path] # "absent"

\* ec2.describe_snapshots(Filters=[tag:rhcos_version = value], OwnerIds=['self']):
\* the ids of the matching snapshots, in the provider's order
RECURSIVE TaggedFrom(_, _)
TaggedFrom(i, value) ==
    IF i > Len(snapshots) THEN <<>>
    ELSE (IF snapshots[i].tag = Some(value) THEN <<i>> ELSE <<>>) \o TaggedFrom(i + 1, value)

DescribeSnapshotsResult(value) == TaggedFrom(1, value)

\* ec2.describe_images(Filters=[name = name], Owners=['self']): the matching ids
RECURSIVE NamedFrom(_, _)
NamedFrom(i, name) ==
    IF i > Len(images) THEN <<>>
    ELSE (IF images[i].name = name THEN <<i>> ELSE <<>>) \o NamedFrom(i + 1, name)

DescribeImagesResult(name) == NamedFrom(1, name)

\* the sizes a download response can have, around the 100 MiB threshold
ResponseSizes ==
    {MinSizeMB * (BytesPerKB * BytesPerKB) - 1, MinSizeMB * (BytesPerKB * BytesPerKB)}

----------------------------------------------------------------------------
(* The job: OpenShiftRelease.__init__ and the locals of its methods *)

NewJob(version) ==
    [version |-> version,
     data |-> None,               \* self._data
     rhcos_version |-> None,      \* self._rhcos_version
     rhcos_filename |-> None,     \* self._rhcos_filename
     rhcos_path |-> None,         \* self._rhcos_path
     rhcos_url |-> None,          \* self._rhcos_url
     fetches |-> 0,               \* GETs of release.txt issued by this object
     resolves |-> 0,              \* re.search runs by this object
     key_count |-> -1,            \* KeyCount of line 139 (-1: not queried)
     rhcos_size |-> -1,           \* rhcos_size of line 125 (-1: nothing downloaded)
     existing_snapshots |-> <<>>, \* ids in existing_snapshots['Snapshots']
     import_task_id |-> 0,
     time_elapsed |-> 0,
     polls |-> 0,                 \* status queries of the poll loop
     snapshot_id |-> None,
     existing_images |-> <<>>,    \* ids in existing_images['Images']
     image_id |-> None]

NoJob == NewJob(<<>>)

\* raise: the exception leaves register_image()
Raise(e) == pc' = "raised" /\ err' = e

Call(name) == calls' = Append(calls, name)

----------------------------------------------------------------------------
(* __main__: discovery, lines 288-306 *)

\* one iteration of `for i in versions_to_upload`: the GET of the upgrade graph
\* and the loop over its nodes.  A failed request or a body that is not the
\* expected JSON raises outside any try block and ends the process.
DiscoverPrefix ==
    /\ pc = "discover"
    /\ pi <= Len(versions_to_upload)
    /\ \/ /\ pc' = "crashed"
          /\ err' = "http"
          /\ UNCHANGED <<pi, openshift_versions>>
       \/ /\ openshift_versions' =
                Collect(graph[versions_to_upload[pi]], versions_to_upload, openshift_versions)
          /\ pi' = pi + 1
          /\ UNCHANGED <<pc, err>>
    /\ UNCHANGED <<versions_to_upload, graph, mirror, run, idx, job, calls, started,
                   succeeded, bucket, disk, gzfiles, snapshots, tasks, images>>

\* line 306: openshift_versions.sort(reverse=True, key=...)
SortVersions ==
    /\ pc = "discover"
    /\ pi > Len(versions_to_upload)
    /\ openshift_versions' = SortDesc(openshift_versions)
    /\ pc' = "loop"
    /\ idx' = 1
    /\ UNCHANGED <<versions_to_upload, graph, mirror, run, pi, job, err, calls, started,
                   succeeded, bucket, disk, gzfiles, snapshots, tasks, images>>

(* __main__: the batch loop, lines 308-315 *)

\* `for v in openshift_versions`: construct the release and enter register_image(),
\* or leave the loop and exit 0
LoopNext ==
    /\ pc = "loop"
    /\ IF idx <= Len(openshift_versions)
       THEN /\ job' = NewJob(openshift_versions[idx])
            /\ started' = Append(started, openshift_versions[idx])
            /\ pc' = "get_release"
       ELSE /\ pc' = "exit"
            /\ UNCHANGED <<job, started>>
    /\ err' = "none"
    /\ calls' = <<>>
    /\ UNCHANGED <<versions_to_upload, graph, mirror, run, pi, openshift_versions, idx,
                   succeeded, bucket, disk, gzfiles, snapshots, tasks, images>>

\* register_image() returned, or raised into `except Exception as e: logger.error(e)`;
\* the iteration ends and its release object is not used again
JobEnd ==
    /\ pc \in {"returned", "raised"}
    /\ IF pc = "raised" /\ ~Caught(err)
       THEN pc' = "crashed" /\ UNCHANGED <<idx, succeeded, job, calls>>
       ELSE /\ pc' = "loop"
            /\ idx' = idx + 1
            /\ succeeded' =
                 IF pc = "returned" /\ succeeded[job.version] = None
                 THEN [succeeded EXCEPT ![job.version] = job.image_id]
                 ELSE succeeded
            /\ job' = NoJob
            /\ calls' = <<>>
    /\ UNCHANGED <<versions_to_upload, graph, mirror, run, pi, openshift_versions,
                   err, started, bucket, disk, gzfiles, snapshots, tasks, images>>

\* the process is invoked again: the remote services and the temp directory
\* keep their state, the process starts afresh
Restart ==
    /\ pc \in {"exit", "crashed"}
    /\ run < MaxRuns
    /\ run' = run + 1
    /\ pc' = "discover"
    /\ pi' = 1
    /\ openshift_versions' = <<>>
    /\ idx' = 0
    /\ job' = NoJob
    /\ err' = "none"
    /\ calls' = <<>>
    /\ started' = <<>>
    /\ UNCHANGED <<versions_to_upload, graph, mirror, succeeded,
                   bucket, disk, gzfiles, snapshots, tasks, images>>

----------------------------------------------------------------------------
(* Version Resolver: the first read of self.rhcos_filename (line 139) runs
   rhcos_filename -> rhcos_version -> data -> requests.get, lines 60-103 *)

GetRelease ==
    /\ pc = "get_release"
    /\ Call("get_release")
    /\ \/ /\ Raise("http")
          /\ job' = [job EXCEPT !.fetches = @ + 1]
       \/ LET text == mirror[job.version]
              m == Search(text)
          IN  /\ job' = [job EXCEPT !.data = Some(text),
                                    !.fetches = @ + 1,
                                    !.resolves = @ + 1,
                                    !.rhcos_version = m,
                                    !.rhcos_filename = Some(Filename(m))]
              /\ pc' = "list_objects"
              /\ UNCHANGED err
    /\ UNCHANGED <<versions_to_upload, graph, mirror, run, pi, openshift_versions, idx,
                   started, succeeded, bucket, disk, gzfiles, snapshots, tasks, images>>

\* self.rhcos_url read while self._rhcos_version is None and self._data is falsy:
\* the data property issues the GET again (line 62), the search runs again, and
\* '/'.join raises TypeError when the version is still None (line 88)
GetReleaseAgain ==
    /\ pc = "get_release_again"
    /\ Call("get_release")
    /\ \/ /\ Raise("http")
          /\ job' = [job EXCEPT !.fetches = @ + 1]
       \/ LET text == mirror[job.version]
              m == Search(text)
          IN  IF m = None
              THEN /\ Raise("type")
                   /\ job' = [job EXCEPT !.data = Some(text),
                                         !.fetches = @ + 1,
                                         !.resolves = @ + 1]
              ELSE /\ job' = [job EXCEPT !.data = Some(text),
                                         !.fetches = @ + 1,
                                         !.resolves = @ + 1,
                                         !.rhcos_version = m,
                                         !.rhcos_url =
                                            Some(Url(job.version, m, job.rhcos_filename[1]))]
                   /\ pc' = "download_get"
                   /\ UNCHANGED err
    /\ UNCHANGED <<versions_to_upload, graph, mirror, run, pi, openshift_versions, idx,
                   started, succeeded, bucket, disk, gzfiles, snapshots, tasks, images>>

----------------------------------------------------------------------------
(* Object Store Stager and Artifact Fetcher: upload_rhcos, download_rhcos *)

\* download_rhcos() up to its requests.get: the exists test (line 112) and the
\* read of self.rhcos_url (line 116).  j is the job with rhcos_path set.
EnterDownload(j) ==
    IF Exists(j.rhcos_path[1])
    THEN /\ job' = j
         /\ pc' = "upload"
         /\ UNCHANGED err
    ELSE IF j.rhcos_version # None
    THEN /\ job' = [j EXCEPT !.rhcos_url =
                                Some(Url(j.version, j.rhcos_version, j.rhcos_filename[1]))]
         /\ pc' = "download_get"
         /\ UNCHANGED err
    ELSE IF DataFalsy(j.data)
    THEN /\ job' = j
         /\ pc' = "get_release_again"
         /\ UNCHANGED err
    ELSE LET m == Search(j.data[1])
         IN  IF m = None
             THEN /\ job' = [j EXCEPT !.resolves = @ + 1]
                  /\ Raise("type")
             ELSE /\ job' = [j EXCEPT !.resolves = @ + 1,
                                      !.rhcos_version = m,
                                      !.rhcos_url = Some(Url(j.version, m, j.rhcos_filename[1]))]
                  /\ pc' = "download_get"
                  /\ UNCHANGED err

\* upload_rhcos(), lines 137-143: the list_objects_v2 call and the skip decision
ListObjects ==
    /\ pc = "list_objects"
    /\ Call("list_objects_v2")
    /\ \/ /\ Raise("provider")
          /\ UNCHANGED job
       \/ LET key_count == KeyCount(job.rhcos_filename[1])
              j == [job EXCEPT !.key_count = key_count]
          IN  IF ObjectSkip(key_count)
              THEN /\ job' = j
                   /\ pc' = "describe_snapshots"
                   /\ UNCHANGED err
              ELSE EnterDownload([j EXCEPT !.rhcos_path = Some(LocalPath(j.rhcos_filename[1]))])
    /\ UNCHANGED <<versions_to_upload, graph, mirror, run, pi, openshift_versions, idx,
                   started, succeeded, bucket, disk, gzfiles, snapshots, tasks, images>>

\* download_rhcos(), lines 117-128: the GET, the .gz file and the size check
DownloadGet ==
    /\ pc = "download_get"
    /\ Call("download")
    /\ \/ /\ Raise("http")
          /\ UNCHANGED <<job, gzfiles>>
       \/ \E rhcos_size \in ResponseSizes :
            /\ gzfiles' = gzfiles \cup {GzPath(job.rhcos_path[1])}
            /\ job' = [job EXCEPT !.rhcos_size = rhcos_size]
            /\ IF TooSmall(rhcos_size)
               THEN Raise("integrity")
               ELSE pc' = "unpack" /\ UNCHANGED err
    /\ UNCHANGED <<versions_to_upload, graph, mirror, run, pi, openshift_versions, idx,
                   started, succeeded, bucket, disk, snapshots, tasks, images>>

\* download_rhcos(), lines 130-134: gzip.open, copyfileobj, os.remove.  The
\* output file is created before the copy; a copy that fails leaves it partial.
\* On return the local rhcos_size is gone.
Unpack ==
    /\ pc = "unpack"
    /\ Call("unpack")
    /\ \/ /\ disk' = [disk EXCEPT ![job.rhcos_path[1]] = "partial"]
          /\ Raise("io")
          /\ UNCHANGED gzfiles
          /\ UNCHANGED job
       \/ /\ disk' = [disk EXCEPT ![job.rhcos_path[1]] = "full"]
          /\ gzfiles' = gzfiles \ {GzPath(job.rhcos_path[1])}
          /\ job' = [job EXCEPT !.rhcos_size = -1]
          /\ pc' = "upload"
          /\ UNCHANGED err
    /\ UNCHANGED <<versions_to_upload, graph, mirror, run, pi, openshift_versions, idx,
                   started, succeeded, bucket, snapshots, tasks, images>>

\* the staged file is left where it is
KeepStaged(path) == disk

\* line 148: os.remove(self.rhcos_path)
RemoveStaged(path) == [disk EXCEPT ![path] = "absent"]

\* upload_rhcos(), lines 145-148: upload_fileobj, then os.remove.  The call can
\* fail before the object is stored, or raise although the bucket has stored
\* the object (the answer is lost); in both cases line 148 is not reached.
UploadFileobj ==
    /\ pc = "upload"
    /\ Call("upload_fileobj")
    /\ \/ /\ Raise("provider")
          /\ UNCHANGED <<bucket, disk>>
       \/ /\ bucket' = [bucket EXCEPT ![job.rhcos_filename[1]] = disk[job.rhcos_path[1]]]
          /\ Raise("provider")
          /\ UNCHANGED disk
       \/ /\ bucket' = [bucket EXCEPT ![job.rhcos_filename[1]] = disk[job.rhcos_path[1]]]
          /\ disk' = RemoveStaged(job.rhcos_path[1])
          /\ pc' = "describe_snapshots"
          /\ UNCHANGED err
    /\ UNCHANGED <<versions_to_upload, graph, mirror, run, pi, openshift_versions, idx,
                   job, started, succeeded, gzfiles, snapshots, tasks, images>>

----------------------------------------------------------------------------
(* Snapshot Importer: import_snapshot, lines 153-215 *)

\* lines 153-169: describe_snapshots and the skip decision.  A filter value of
\* None is rejected by the client's parameter validation.
DescribeSnapshots ==
    /\ pc = "describe_snapshots"
    /\ Call("describe_snapshots")
    /\ \/ /\ Raise("provider")
          /\ UNCHANGED job
       \/ IF job.rhcos_version = None
          THEN Raise("provider") /\ UNCHANGED job
          ELSE LET existing_snapshots == DescribeSnapshotsResult(job.rhcos_version[1])
               IN  IF SnapshotSkip(existing_snapshots)
                   THEN /\ job' = [job EXCEPT !.existing_snapshots = existing_snapshots,
                                              !.snapshot_id = Some(existing_snapshots[1])]
                        /\ pc' = "describe_images"
                        /\ UNCHANGED err
                   ELSE /\ job' = [job EXCEPT !.existing_snapshots = existing_snapshots]
                        /\ pc' = "import_submit"
                        /\ UNCHANGED err
    /\ UNCHANGED <<versions_to_upload, graph, mirror, run, pi, openshift_versions, idx,
                   started, succeeded, bucket, disk, gzfiles, snapshots, tasks, images>>

\* lines 171-184: ec2.import_snapshot returns the task id; time_elapsed = 0
ImportSubmit ==
    /\ pc = "import_submit"
    /\ Call("import_snapshot")
    /\ \/ /\ Raise("provider")
          /\ UNCHANGED <<job, tasks>>
       \/ /\ tasks' = Append(tasks, [key |-> job.rhcos_filename[1],
                                     status |-> "active",
                                     snapshot |-> 0])
          /\ job' = [job EXCEPT !.import_task_id = Len(tasks) + 1,
                                !.time_elapsed = 0]
          /\ pc' = "poll"
          /\ UNCHANGED err
    /\ UNCHANGED <<versions_to_upload, graph, mirror, run, pi, openshift_versions, idx,
                   started, succeeded, bucket, disk, gzfiles, snapshots, images>>

\* a test that takes every status other than "active" for the end of the import
IsCompletedAnyFinal(status) == status # "active"

\* line 191: ...['SnapshotTaskDetail']['Status'] == 'completed'
IsCompleted(status) == status = "completed"

\* a loop that begins before the submission of the import task
LoopHeadBeforeSubmit == "import_submit"

\* line 185: `while True:` begins at the status query, after the submission
LoopHead == "poll"

\* one iteration of the loop of lines 185-215: the status query, then either
\* the completed branch or the wait and the timeout test
Poll ==
    /\ pc = "poll"
    /\ calls' = calls
    /\ \/ /\ Raise("provider")
          /\ job' = [job EXCEPT !.polls = @ + 1]
       \/ LET task == tasks[job.import_task_id]
          IN  IF IsCompleted(task.status)
              THEN /\ job' = [job EXCEPT !.polls = @ + 1,
                                         !.snapshot_id = Some(task.snapshot)]
                   /\ pc' = "create_tags"
                   /\ UNCHANGED err
              ELSE /\ job' = [job EXCEPT !.polls = @ + 1,
                                         !.time_elapsed = @ + PollSeconds]
                   /\ IF TimedOut(job.time_elapsed + PollSeconds)
                      THEN Raise("timeout")
                      ELSE pc' = LoopHead /\ UNCHANGED err
    /\ UNCHANGED <<versions_to_upload, graph, mirror, run, pi, openshift_versions, idx,
                   started, succeeded, bucket, disk, gzfiles, snapshots, tasks, images>>

\* lines 197-207: ec2.create_tags on the new snapshot, then return its id (the
\* loop's locals time_elapsed and the poll count are gone on return)
CreateTags ==
    /\ pc = "create_tags"
    /\ Call("create_tags")
    /\ \/ /\ Raise("provider")
          /\ UNCHANGED snapshots
          /\ UNCHANGED job
       \/ /\ snapshots' = [snapshots EXCEPT ![job.snapshot_id[1]].tag = job.rhcos_version]
          /\ job' = [job EXCEPT !.time_elapsed = 0, !.polls = 0]
          /\ pc' = "describe_images"
          /\ UNCHANGED err
    /\ UNCHANGED <<versions_to_upload, graph, mirror, run, pi, openshift_versions, idx,
                   started, succeeded, bucket, disk, gzfiles, tasks, images>>

----------------------------------------------------------------------------
(* Image Registrar: register_image, lines 220-276 *)

\* lines 222-234: describe_images and the skip decision
DescribeImages ==
    /\ pc = "describe_images"
    /\ Call("describe_images")
    /\ \/ /\ Raise("provider")
          /\ UNCHANGED job
       \/ LET existing_images == DescribeImagesResult(ImageName(job.rhcos_version))
          IN  IF ImageSkip(existing_images)
              THEN /\ job' = [job EXCEPT !.existing_images = existing_images,
                                         !.image_id = Some(existing_images[1])]
                   /\ pc' = "returned"
                   /\ UNCHANGED err
              ELSE /\ job' = [job EXCEPT !.existing_images = existing_images]
                   /\ pc' = "register"
                   /\ UNCHANGED err
    /\ UNCHANGED <<versions_to_upload, graph, mirror, run, pi, openshift_versions, idx,
                   started, succeeded, bucket, disk, gzfiles, snapshots, tasks, images>>

\* lines 238-260: ec2.register_image from snapshot_id
RegisterImage ==
    /\ pc = "register"
    /\ Call("register_image")
    /\ \/ /\ Raise("provider")
          /\ UNCHANGED <<job, images>>
       \/ /\ images' = Append(images, [name |-> ImageName(job.rhcos_version),
                                       snapshot |-> job.snapshot_id[1],
                                       public |-> FALSE])
          /\ job' = [job EXCEPT !.image_id = Some(Len(images) + 1)]
          /\ pc' = "modify_attribute"
          /\ UNCHANGED err
    /\ UNCHANGED <<versions_to_upload, graph, mirror, run, pi, openshift_versions, idx,
                   started, succeeded, bucket, disk, gzfiles, snapshots, tasks>>

\* lines 265-276: ec2.modify_image_attribute adds the group 'all', then return
ModifyImageAttribute ==
    /\ pc = "modify_attribute"
    /\ Call("modify_image_attribute")
    /\ \/ /\ Raise("provider")
          /\ UNCHANGED images
       \/ /\ images' = [images EXCEPT ![job.image_id[1]].public = TRUE]
          /\ pc' = "returned"
          /\ UNCHANGED err
    /\ UNCHANGED <<versions_to_upload, graph, mirror, run, pi, openshift_versions, idx,
                   job, started, succeeded, bucket, disk, gzfiles, snapshots, tasks>>

----------------------------------------------------------------------------
(* The compute provider working on an import task, on its own schedule *)

\* an active task completes: the provider creates the (untagged) snapshot
TaskCompletes ==
    /\ \E t \in 1..Len(tasks) :
         /\ tasks[t].status = "active"
         /\ snapshots' = Append(snapshots, [tag |-> None, task |-> t])
         /\ tasks' = [tasks EXCEPT ![t].status = "completed",
                                   ![t].snapshot = Len(snapshots) + 1]
    /\ UNCHANGED <<versions_to_upload, graph, mirror, run, pc, pi, openshift_versions, idx,
                   job, err, calls, started, succeeded, bucket, disk, gzfiles, images>>

\* an active task fails: the provider reports it as deleted
TaskFails ==
    /\ \E t \in 1..Len(tasks) :
         /\ tasks[t].status = "active"
         /\ tasks' = [tasks EXCEPT ![t].status = "deleted"]
    /\ UNCHANGED <<versions_to_upload, graph, mirror, run, pc, pi, openshift_versions, idx,
                   job, err, calls, started, succeeded, bucket, disk, gzfiles, snapshots,
                   images>>

----------------------------------------------------------------------------
(* Inputs *)

P47 == <<"4", ".", "7">>
P48 == <<"4", ".", "8">>
V473 == <<"4", ".", "7", ".", "3">>
V4710 == <<"4", ".", "7", ".", "1", "0">>
V472rc1 == <<"4", ".", "7", ".", "2", "-", "r", "c", ".", "1">>
V480 == <<"4", ".", "8", ".", "0">>

\* the node versions of the upgrade graph (strings without line breaks)
VersionPool == {V473, V4710, V472rc1, V480}

TextAV1 == <<[name |-> "kubernetes", value |-> "1.20.0"],
             [name |-> "machine-os", value |-> AV1]>>
TextAV2 == <<[name |-> "machine-os", value |-> AV2],
             [name |-> "machine-os", value |-> AV1]>>
TextNoMatch == <<[name |-> "kubernetes", value |-> "1.20.0"],
                 [name |-> "machine-os", value |-> "unknown"]>>
TextEmpty == <<>>

\* Two states of the release mirror.  In the first the first and the third
\* release of the batch share an artifact version and the second has no
\* machine-os line; in the second the first release lists two machine-os lines,
\* the second has an empty body and the third has no machine-os line.
Mirrors ==
    {(V480 :> TextAV1) @@ (V4710 :> TextNoMatch) @@ (V473 :> TextAV1) @@ (V472rc1 :> TextEmpty),
     (V480 :> TextAV2) @@ (V4710 :> TextEmpty) @@ (V473 :> TextNoMatch) @@ (V472rc1 :> TextEmpty)}

SeqsUpTo(S, n) == UNION {[1..k -> S] : k \in 0..n}

\* a process that has just been invoked
InitProcess ==
    /\ run = 1
    /\ pc = "discover"
    /\ pi = 1
    /\ openshift_versions = <<>>
    /\ idx = 0
    /\ job = NoJob
    /\ err = "none"
    /\ calls = <<>>
    /\ started = <<>>
    /\ succeeded = [v \in VersionPool |-> None]

\* The pipeline's inputs: the upgrade graphs of the documented example, one of the
\* mirror states, an empty bucket and temp directory, and an account with no
\* snapshot or with two snapshots already tagged AV1.
InitPipeline ==
    /\ InitProcess
    /\ versions_to_upload = <<P47, P48>>
    /\ graph = (P47 :> <<V473, V4710, V472rc1, V480>>) @@ (P48 :> <<V4710, V480>>)
    /\ mirror \in Mirrors
    /\ bucket = [k \in Keys |-> "absent"]
    /\ disk = [p \in Paths |-> "absent"]
    /\ gzfiles = {}
    /\ snapshots \in {<<>>, <<[tag |-> Some(AV1), task |-> 0], [tag |-> Some(AV1), task |-> 0]>>}
    /\ tasks = <<>>
    /\ images = <<>>

Init == InitPipeline

Next ==
    \/ DiscoverPrefix
    \/ SortVersions
    \/ LoopNext
    \/ JobEnd
    \/ Restart
    \/ GetRelease
    \/ GetReleaseAgain
    \/ ListObjects
    \/ DownloadGet
    \/ Unpack
    \/ UploadFileobj
    \/ DescribeSnapshots
    \/ ImportSubmit
    \/ Poll
    \/ CreateTags
    \/ DescribeImages
    \/ RegisterImage
    \/ ModifyImageAttribute
    \/ TaskCompletes
    \/ TaskFails

Spec == Init /\ [][Next]_vars

\* Discovery on its own: every choice of one or two prefixes and of responses
\* of up to MaxNodes nodes each, up to the first release entering the pipeline
ArgChoices == SeqsUpTo({P47, P48}, 2) \ {<<>>}

InitDiscovery ==
    /\ InitProcess
    /\ versions_to_upload \in ArgChoices
    /\ graph \in [Range(versions_to_upload) -> SeqsUpTo(VersionPool, MaxNodes)]
    /\ mirror \in Mirrors
    /\ bucket = [k \in Keys |-> "absent"]
    /\ disk = [p \in Paths |-> "absent"]
    /\ gzfiles = {}
    /\ snapshots = <<>>
    /\ tasks = <<>>
    /\ images = <<>>

NextDiscovery ==
    \/ DiscoverPrefix
    \/ SortVersions
    \/ LoopNext

SpecDiscovery == InitDiscovery /\ [][NextDiscovery]_vars

----------------------------------------------------------------------------
(* Vocabulary of the properties *)

\* positions inside register_image(), from its first external call to its end
JobPcs ==
    {"get_release", "get_release_again", "list_objects", "download_get", "unpack",
     "upload", "describe_snapshots", "import_submit", "poll", "create_tags",
     "describe_images", "register", "modify_attribute", "returned", "raised"}

\* positions inside download_rhcos()
FetcherPcs == {"get_release_again", "download_get", "unpack"}

\* positions inside upload_rhcos(), once the filename is known
StagerPcs == FetcherPcs \cup {"list_objects", "upload"}

\* positions inside import_snapshot(), once the filename is known
ImporterPcs == StagerPcs \cup {"describe_snapshots", "import_submit", "poll", "create_tags"}

\* the calls that change the temp directory, the bucket or the account
MutatingCalls ==
    {"download", "unpack", "upload_fileobj", "import_snapshot", "create_tags",
     "register_image", "modify_image_attribute"}

IsPrefixOf(s, t) == Len(s) <= Len(t) /\ s = SubSeq(t, 1, Len(s))

NoDuplicates(s) == \A i, j \in 1..Len(s) : s[i] = s[j] => i = j

ObjectPresent == job.rhcos_filename # None /\ bucket[job.rhcos_filename[1]] # "absent"

TaggedSnapshotPresent ==
    job.rhcos_version # None /\ DescribeSnapshotsResult(job.rhcos_version[1]) # <<>>

ImagePresent == DescribeImagesResult(ImageName(job.rhcos_version)) # <<>>

----------------------------------------------------------------------------
(* Properties *)

\* C1 (failure isolation): register_image() is started exactly once for every
\* version of the batch, in the batch's order, whichever versions raise; the
\* batch loop itself never raises (the process can only die during discovery),
\* so the loop always reaches its end with every version started.
C1_FailureIsolation ==
    /\ IsPrefixOf(started, openshift_versions)
    /\ NoDuplicates(started)
    /\ pc \in JobPcs => Len(started) = idx /\ job.version = openshift_versions[idx]
    /\ pc = "loop" => Len(started) = idx - 1
    /\ pc = "exit" => started = openshift_versions
    /\ pc = "crashed" => idx = 0 /\ started = <<>>

\* a batch of three has ended in which the middle release raised and the first
\* and the third returned an image
C1_Witness ==
    /\ run = 1
    /\ pc = "exit"
    /\ Len(started) = 3
    /\ succeeded[started[1]] # None
    /\ succeeded[started[2]] = None
    /\ succeeded[started[3]] # None

\* C2 (re-run idempotence): once register_image() has returned an image id for a
\* release, every later register_image() for that release issues no mutating
\* call (no download, unpack, upload, import task, tagging, registration or
\* launch-permission update), can fail only on a failed request, and when it
\* returns, returns the same image id.
C2_RerunIdempotent ==
    (pc \in JobPcs /\ succeeded[job.version] # None) =>
        /\ Range(calls) \cap MutatingCalls = {}
        /\ pc \notin {"download_get", "unpack", "upload", "import_submit", "poll",
                      "create_tags", "register", "modify_attribute", "get_release_again"}
        /\ pc = "raised" => err \in {"http", "provider"}
        /\ pc = "returned" => job.image_id = succeeded[job.version]

\* a later run has returned for a release that had succeeded before
C2_Witness ==
    /\ run > 1
    /\ pc = "returned"
    /\ succeeded[job.version] # None
    /\ job.image_id = succeeded[job.version]

\* C3 (timeout of the poll loop): the loop is left by the timeout exactly at an
\* accumulated wait of 310 seconds, after 31 status queries; while the loop is
\* running the accumulated wait is at most 300 seconds and is 10 seconds per
\* query made.
C3_PollTimeout ==
    /\ (pc = "raised" /\ err = "timeout") => job.time_elapsed = 310 /\ job.polls = 31
    /\ pc = "poll" => job.time_elapsed <= 300 /\ job.time_elapsed = 10 * job.polls

\* the poll loop has ended in the timeout
C3_Witness == pc = "raised" /\ err = "timeout" /\ job.polls = 31

\* C4 as stated (stage-skipping control flow): a stage is entered only when the
\* stage above found no existing output: import_snapshot() runs only if no image
\* of the derived name exists, the stager only if no tagged snapshot exists, the
\* fetcher only if the object is absent.
C4_AsStated ==
    /\ pc \in ImporterPcs => ~ImagePresent
    /\ pc \in StagerPcs => ~TaggedSnapshotPresent
    /\ pc \in FetcherPcs => ~ObjectPresent

\* C4 amended: only the stager's call of the fetcher is conditional (the fetcher
\* runs only if the object is absent).  register_image() calls import_snapshot()
\* and import_snapshot() calls the stager on every run, before their own checks:
\* the bucket is queried second in every run and the snapshots are queried
\* before the images.  What each upper stage skips is its own work: an import
\* task is submitted only if no tagged snapshot exists, an image is registered
\* only if no image of the derived name exists.
C4_StageSkipping ==
    /\ pc \in FetcherPcs => ~ObjectPresent
    /\ pc \in {"import_submit", "poll", "create_tags"} => ~TaggedSnapshotPresent
    /\ pc = "register" => ~ImagePresent
    /\ (pc \in JobPcs /\ Len(calls) >= 2) => calls[2] = "list_objects_v2"
    /\ (pc \in JobPcs /\ "describe_images" \in Range(calls)) =>
            "describe_snapshots" \in Range(calls)

\* the stager is running although the image and a tagged snapshot already exist
C4_Witness ==
    /\ pc = "list_objects"
    /\ ImagePresent
    /\ TaggedSnapshotPresent

\* C5 (unresolvable artifact version means skip): when the release text has no
\* machine-os match, the derived fields stay unset and register_image() issues
\* no call besides the fetch of the release text.
C5_NoMatchSkips ==
    (pc \in JobPcs /\ job.data # None /\ Search(job.data[1]) = None) =>
        /\ job.rhcos_filename = None
        /\ job.rhcos_path = None
        /\ job.rhcos_url = None
        /\ Range(calls) \subseteq {"get_release"}

\* C6 (idempotent staging): when the bucket's answer shows an object under the
\* filename, upload_rhcos() returns without entering the fetcher and without an
\* upload, in the first run and in every later one.
C6_StagingIdempotent ==
    (pc \in JobPcs /\ job.key_count > 0) =>
        /\ ObjectPresent
        /\ pc \notin StagerPcs
        /\ job.rhcos_path = None
        /\ Range(calls) \cap {"download", "unpack", "upload_fileobj"} = {}

\* a later run has left the stager by the skip
C6_Witness ==
    /\ run > 1
    /\ pc = "describe_snapshots"
    /\ job.key_count > 0

\* C7 (idempotent snapshot import): when describe_snapshots lists snapshots
\* tagged with the artifact version, import_snapshot() returns the first of them
\* and no import task is submitted, nothing is polled and nothing is tagged.
C7_ImportIdempotent ==
    (pc \in JobPcs /\ Len(job.existing_snapshots) > 0) =>
        /\ job.snapshot_id = Some(DescribeSnapshotsResult(job.rhcos_version[1])[1])
        /\ snapshots[job.snapshot_id[1]].tag = job.rhcos_version
        /\ pc \notin {"import_submit", "poll", "create_tags"}
        /\ job.import_task_id = 0
        /\ job.polls = 0
        /\ Range(calls) \cap {"import_snapshot", "create_tags"} = {}

\* import_snapshot() has returned the first of two tagged snapshots
C7_Witness ==
    /\ pc = "describe_images"
    /\ Len(job.existing_snapshots) = 2
    /\ job.snapshot_id = Some(job.existing_snapshots[1])

\* C8 (idempotent image registration): when describe_images lists an image of
\* the derived name, register_image() returns the first such image's id and
\* calls neither register_image nor modify_image_attribute.
C8_RegisterIdempotent ==
    (pc \in JobPcs /\ Len(job.existing_images) > 0) =>
        /\ pc = "returned"
        /\ job.image_id = Some(DescribeImagesResult(ImageName(job.rhcos_version))[1])
        /\ images[job.image_id[1]].name = ImageName(job.rhcos_version)
        /\ Range(calls) \cap {"register_image", "modify_image_attribute"} = {}

\* register_image() has returned an image that existed before
C8_Witness ==
    /\ pc = "returned"
    /\ Len(job.existing_images) > 0

\* C9 (fetch integrity): when the downloaded .gz file is smaller than 100 MiB
\* (104857600 bytes), download_rhcos() raises: no decompression was started, no
\* file exists at the local path, and the error ends only this release's job,
\* never the process.
C9_FetchIntegrity ==
    /\ (pc \in JobPcs /\ job.rhcos_size # -1 /\ job.rhcos_size < 104857600) =>
          /\ pc = "raised"
          /\ err = "integrity"
          /\ "unpack" \notin Range(calls)
          /\ ~Exists(job.rhcos_path[1])
    /\ err = "integrity" => pc \in {"raised", "loop"}

\* a download one byte below 100 MiB has been rejected
C9_Witness ==
    /\ pc = "raised"
    /\ err = "integrity"
    /\ job.rhcos_size = 104857599

\* the node versions of all responses the discovery loop has requested
AllNodes ==
    UNION {Range(graph[versions_to_upload[i]]) : i \in 1..Len(versions_to_upload)}

\* exactly major.minor.patch: two dots, digits everywhere else, no empty piece
StrictForm(v) ==
    LET dots == {i \in 1..Len(v) : v[i] = "."}
    IN  /\ Cardinality(dots) = 2
        /\ \A i \in 1..Len(v) : i \notin dots => v[i] \in Digits
        /\ 1 \notin dots
        /\ Len(v) \notin dots
        /\ \A i \in dots : i + 1 \notin dots

\* v's major.minor is the prefix p
HasPrefix(v, p) == IsPrefixOf(p \o <<".">>, v)

\* the numeric (major, minor, patch) tuple of a strict version
Numeric(v) == [i \in 1..3 |-> ToInt(Split(v)[i])]

\* a does not come after b in descending numeric order
NotBelow(a, b) ==
    \/ a[1] > b[1]
    \/ a[1] = b[1] /\ a[2] > b[2]
    \/ a[1] = b[1] /\ a[2] = b[2] /\ a[3] >= b[3]

ExitCode == IF pc = "exit" THEN 0 ELSE 1

C12_Memoized ==
    pc \in JobPcs => job.fetches <= 1 /\ job.resolves <= 1

\* C13 as stated (local cleanup after staging): when upload_rhcos() has
\* returned, no file is at the local path, the skip of the upload included.
C13_AsStated ==
    pc = "describe_snapshots" => ~Exists(LocalPath(job.rhcos_filename[1]))

\* C13 amended: when upload_rhcos() has returned after uploading (the bucket
\* had no object), no file is at the local path, whether the file was
\* downloaded by this call or was there before it.
C13_Cleanup ==
    (pc = "describe_snapshots" /\ job.key_count = 0) =>
        /\ "upload_fileobj" \in Range(calls)
        /\ ~Exists(job.rhcos_path[1])
        /\ ObjectPresent

\* upload_rhcos() has returned after uploading a file that was at the local
\* path before the call
C13_Witness ==
    /\ pc = "describe_snapshots"
    /\ "upload_fileobj" \in Range(calls)
    /\ "download" \notin Range(calls)
    /\ ~Exists(job.rhcos_path[1])

\* C14 (one import task per job, one release at a time): an import task is
\* submitted only by a register_image() that has submitted none before; a
\* release enters the pipeline only from the batch loop, the batch loop is
\* reached only from discovery or from a register_image() that returned or
\* raised, and a running register_image() is left only by returning or raising.
C14_OneAtATime ==
    [][ /\ Len(tasks') # Len(tasks) =>
              /\ pc = "import_submit"
              /\ Len(tasks') = Len(tasks) + 1
              /\ "import_snapshot" \notin Range(calls)
        /\ (started' # started /\ pc' # "discover") =>
              /\ pc = "loop"
              /\ pc' = "get_release"
              /\ started' = Append(started, job'.version)
        /\ (pc' = "loop" /\ pc # "loop") => pc \in {"discover", "returned", "raised"}
        /\ pc \in JobPcs \ {"returned", "raised"} => pc' \in JobPcs
      ]_vars

\* a later release of the batch is polling its own import task while the task
\* of an earlier release is still active
C14_Witness ==
    /\ pc = "poll"
    /\ idx > 1
    /\ job.import_task_id = 2
    /\ tasks[1].status = "active"

\* C15 (only "completed" ends the poll loop successfully): as long as the
\* import task is not completed (active or deleted), import_snapshot() is in
\* the poll loop with 10 seconds waited per query, or has raised; it has no
\* snapshot id and has tagged nothing, and the loop ends by the timeout after
\* 31 queries unless a status query itself fails.
C15_OnlyCompletedEnds ==
    (pc \in JobPcs /\ job.import_task_id # 0
        /\ tasks[job.import_task_id].status # "completed") =>
        /\ pc \in {"poll", "raised"}
        /\ job.snapshot_id = None
        /\ "create_tags" \notin Range(calls)
        /\ pc = "poll" => job.time_elapsed = 10 * job.polls /\ job.time_elapsed <= 300
        /\ pc = "raised" => err \in {"timeout", "provider"}
        /\ (pc = "raised" /\ err = "timeout") => job.polls = 31

\* the poll loop has timed out on a task the provider reports as deleted
C15_Witness ==
    /\ pc = "raised"
    /\ err = "timeout"
    /\ tasks[job.import_task_id].status = "deleted"

\* the place of a mutating call in the order of the pipeline
Rank(call) ==
    CASE call = "download" -> 1
      [] call = "unpack" -> 2
      [] call = "upload_fileobj" -> 3
      [] call = "import_snapshot" -> 4
      [] call = "create_tags" -> 5
      [] call = "register_image" -> 6
      [] call = "modify_image_attribute" -> 7

\* C16 (ordering of effects inside one job): the mutating calls of one
\* register_image() occur in the order download, unpack, upload, import,
\* tagging, registration, launch-permission update, each at most once; an
\* import task is submitted only when the object is in the bucket; a snapshot
\* is tagged only when its import task is completed; an image is registered
\* only from the snapshot id import_snapshot() returned, a snapshot tagged with
\* the artifact version; the launch permission is updated only for the image
\* the registration returned.
C16_EffectOrder ==
    pc \in JobPcs =>
        /\ \A i, j \in 1..Len(calls) :
              (i < j /\ calls[i] \in MutatingCalls /\ calls[j] \in MutatingCalls)
                  => Rank(calls[i]) < Rank(calls[j])
        /\ (pc = "import_submit" \/ "import_snapshot" \in Range(calls)) => ObjectPresent
        /\ (pc = "create_tags" \/ "create_tags" \in Range(calls)) =>
              /\ job.import_task_id # 0
              /\ tasks[job.import_task_id].status = "completed"
              /\ job.snapshot_id = Some(tasks[job.import_task_id].snapshot)
        /\ (pc = "register" \/ "register_image" \in Range(calls)) =>
              /\ job.snapshot_id # None
              /\ job.snapshot_id[1] \in 1..Len(snapshots)
              /\ snapshots[job.snapshot_id[1]].tag = job.rhcos_version
        /\ (pc = "modify_attribute" \/ "modify_image_attribute" \in Range(calls)) =>
              /\ "register_image" \in Range(calls)
              /\ job.image_id # None
              /\ job.image_id[1] \in 1..Len(images)
              /\ images[job.image_id[1]].snapshot = job.snapshot_id[1]

\* a register_image() has gone through every stage and returned
C16_Witness ==
    /\ pc = "returned"
    /\ Range(calls) \cap MutatingCalls = MutatingCalls

\* C17 (at most one snapshot per artifact version): for every artifact version
\* at most one snapshot was ever created from its object.
C17_OneSnapshotPerVersion ==
    \A a \in ArtifactVersions :
        Cardinality({i \in 1..Len(snapshots) :
                        /\ snapshots[i].task # 0
                        /\ tasks[snapshots[i].task].key = Filename(Some(a))}) <= 1

\* C18 (every image returned is public): the image whose id register_image()
\* returns has the launch-permission group 'all'.
C18_ReturnedImagePublic ==
    pc = "returned" => images[job.image_id[1]].public

\* C19 (only complete artifacts are uploaded): no object of the bucket is the
\* content of an interrupted decompression.
C19_OnlyCompleteUploaded ==
    \A k \in Keys : bucket[k] # "partial"

====
